---- MODULE Spec2Model ----
(***************************************************************************)
(* Model of the definition linker, src/utils/termLinking.ts.               *)
(*                                                                         *)
(* Strings are sequences of one-character strings.  Positions are the      *)
(* 0-based indices of the source; Slice converts to TLA+'s 1-based         *)
(* sequences.  One call of parseDefinitionForLinks is a small state        *)
(* machine: the early return, the preparation of the candidate list, one   *)
(* action per branch of the scan loop's body, and the merge and return.    *)
(* The termMap built at lines 34-38 is never read afterwards and is left   *)
(* out.                                                                    *)
(***************************************************************************)
EXTENDS Integers, Sequences, FiniteSets, TLC

\* ------------------------------------------------------------------ bounds
MaxDefLen == 3
MaxNameLen == 2
MaxTerms == 2

\* --------------------------------------------------------------- characters
UpperLetters ==
    <<"A","B","C","D","E","F","G","H","I","J","K","L","M",
      "N","O","P","Q","R","S","T","U","V","W","X","Y","Z">>

LowerLetters ==
    <<"a","b","c","d","e","f","g","h","i","j","k","l","m",
      "n","o","p","q","r","s","t","u","v","w","x","y","z">>

DigitChars == {"0","1","2","3","4","5","6","7","8","9"}

Range(f) == {f[i] : i \in DOMAIN f}

\* \w of a RegExp without the u flag: [A-Za-z0-9_]
WordChars == Range(UpperLetters) \cup Range(LowerLetters) \cup DigitChars \cup {"_"}

IsWordChar(c) == c \in WordChars

\* The characters escapeRegex puts a backslash before: . * + ? ^ $ { } ( ) | [ ] \
RegexSpecialChars ==
    {".", "*", "+", "?", "^", "$", "{", "}", "(", ")", "|", "[", "]", "\\"}

\* Canonicalize of the i flag (no u flag): the character's upper case.
Canonicalize(c) ==
    IF \E i \in 1..26 : LowerLetters[i] = c
    THEN UpperLetters[CHOOSE i \in 1..26 : LowerLetters[i] = c]
    ELSE c

\* The characters the bounded inputs are drawn from: a letter in both cases,
\* a second word character and a character that is not a word character
\* (and is special in a regular expression).
Alphabet == {"a", "A", "b", "+"}

\* ------------------------------------------------------------------ strings
Min(S) == CHOOSE x \in S : \A y \in S : x <= y

\* String.prototype.slice(start, end) for 0 <= start: end is clipped.
Slice(s, start, end) == SubSeq(s, start + 1, IF end < Len(s) THEN end ELSE Len(s))

\* String.prototype.slice(start)
SliceFrom(s, start) == SubSeq(s, start + 1, Len(s))

RECURSIVE escapeRegex(_)
escapeRegex(str) ==
    IF str = <<>> THEN <<>>
    ELSE (IF Head(str) \in RegexSpecialChars
          THEN <<"\\", Head(str)>>
          ELSE <<Head(str)>>) \o escapeRegex(Tail(str))

\* The source text of the pattern: `\\b${escapeRegex(term.name)}\\b`
PatternSource(name) == <<"\\", "b">> \o escapeRegex(name) \o <<"\\", "b">>

\* The pattern as the regular-expression parser reads it: "\b" is the word
\* boundary assertion, a backslash before any other character makes that
\* character a literal, and an unescaped character is itself.
RECURSIVE RegexAtoms(_)
RegexAtoms(src) ==
    IF src = <<>> THEN <<>>
    ELSE IF Head(src) = "\\" /\ Len(src) >= 2
         THEN <<IF src[2] = "b"
                THEN [kind |-> "boundary"]
                ELSE [kind |-> "char", ch |-> src[2]]>>
              \o RegexAtoms(SubSeq(src, 3, Len(src)))
         ELSE <<[kind |-> "char", ch |-> Head(src)]>> \o RegexAtoms(Tail(src))

\* Is the character at 0-based index i of s a word character (false outside s)?
IsWordAt(s, i) == i >= 0 /\ i < Len(s) /\ IsWordChar(s[i + 1])

\* An assertion that holds everywhere.
NoBoundaryTest(s, i) == TRUE

\* \b at 0-based position i of s
WordBoundary(s, i) == IsWordAt(s, i - 1) # IsWordAt(s, i)

\* Do atoms k.. of the pattern match s from 0-based position i on?
RECURSIVE MatchAtoms(_, _, _, _)
MatchAtoms(atoms, k, s, i) ==
    IF k > Len(atoms) THEN TRUE
    ELSE IF atoms[k].kind = "boundary"
         THEN WordBoundary(s, i) /\ MatchAtoms(atoms, k + 1, s, i)
         ELSE /\ i < Len(s)
              /\ Canonicalize(s[i + 1]) = Canonicalize(atoms[k].ch)
              /\ MatchAtoms(atoms, k + 1, s, i + 1)

NoMatch == -1

\* searchText.match(new RegExp(`\\b${escapeRegex(name)}\\b`, 'i')): the index
\* of the leftmost match, NoMatch when match() returns null.
RegexMatchIndex(searchText, name) ==
    LET atoms == RegexAtoms(PatternSource(name))
        hits == {i \in 0..Len(searchText) : MatchAtoms(atoms, 1, searchText, i)}
    IN IF hits = {} THEN NoMatch ELSE Min(hits)

\* ------------------------------------------------------- the candidate list
\* The current term is kept.
FilterNothing(terms, cur) == terms

\* allTerms.filter((term) => term.id !== currentTermId)
FilterOthers(terms, cur) == SelectSeq(terms, LAMBDA t : t.id # cur)

\* Insert t before the elements of its own length: a sort that is not stable.
RECURSIVE InsertBeforeEqual(_, _)
InsertBeforeEqual(sorted, t) ==
    IF sorted = <<>> THEN <<t>>
    ELSE IF Len(Head(sorted).name) > Len(t.name)
         THEN <<Head(sorted)>> \o InsertBeforeEqual(Tail(sorted), t)
         ELSE <<t>> \o sorted

\* Insert t into a list sorted by name length descending, after every element
\* that is at least as long (the sort is stable).
RECURSIVE InsertByLength(_, _)
InsertByLength(sorted, t) ==
    IF sorted = <<>> THEN <<t>>
    ELSE IF Len(Head(sorted).name) >= Len(t.name)
         THEN <<Head(sorted)>> \o InsertByLength(Tail(sorted), t)
         ELSE <<t>> \o sorted

\* The catalog's order is kept.
NoSort(terms) == terms

\* .sort((a, b) => b.name.length - a.name.length)
RECURSIVE SortByLengthDesc(_)
SortByLengthDesc(terms) ==
    IF terms = <<>> THEN <<>>
    ELSE InsertByLength(SortByLengthDesc(SubSeq(terms, 1, Len(terms) - 1)),
                        terms[Len(terms)])

OtherTerms(terms, cur) == SortByLengthDesc(FilterOthers(terms, cur))

\* The caller's list sorted in place, as by allTerms.sort(...).
SortedInPlace(terms, cur) == SortByLengthDesc(terms)

\* The caller's list after lines 26-28: filter() returns a new array and
\* sort() reorders that array in place, so the list passed in is as it was.
CallerListAfterSort(terms, cur) == terms

\* ------------------------------------------------------------ the scan loop
\* The anchored test made on the whole definition at processedIndex, where
\* the character before the position is seen.
MatchedTermIndexInContext(def, others, pIndex) ==
    LET found == {k \in 1..Len(others) :
                    MatchAtoms(RegexAtoms(PatternSource(others[k].name)), 1, def, pIndex)}
    IN IF found = {} THEN 0 ELSE Min(found)

\* The for loop of lines 46-57: the index in others of the first term whose
\* pattern matches the text sliced at processedIndex at index 0; 0 when the
\* loop ends without a match.
MatchedTermIndex(def, others, pIndex) ==
    LET found == {k \in 1..Len(others) :
                    RegexMatchIndex(SliceFrom(def, pIndex), others[k].name) = 0}
    IN IF found = {} THEN 0 ELSE Min(found)

\* The catalog's spelling instead of the definition's characters.
LinkTextFromName(def, matchStart, term) == term.name

\* The text of a link segment: the definition's characters under the match.
LinkText(def, matchStart, term) == Slice(def, matchStart, matchStart + Len(term.name))

\* A link without its termId.
LinkSegmentNoId(def, matchStart, term) ==
    [text |-> LinkText(def, matchStart, term), isLink |-> TRUE]

LinkSegment(def, matchStart, term) ==
    [text |-> LinkText(def, matchStart, term), isLink |-> TRUE, termId |-> term.id]

\* One character too far.
AfterLinkSkip(matchStart, term) == matchStart + Len(term.name) + 1

\* The scan position is left where it was.
AfterLinkStuck(matchStart, term) == matchStart

\* Line 66: the scan position after a link.
AfterLink(matchStart, term) == matchStart + Len(term.name)

\* Lines 69-82: the nearest position at which a candidate matches in the text
\* sliced at processedIndex, definition.length when none does.
NextMatchPos(def, others, pIndex) ==
    Min({Len(def)} \cup
        {pIndex + RegexMatchIndex(SliceFrom(def, pIndex), others[k].name) :
           k \in {j \in 1..Len(others) :
                    RegexMatchIndex(SliceFrom(def, pIndex), others[j].name) # NoMatch}})

PlainSegment(text) == [text |-> text, isLink |-> FALSE]

\* ----------------------------------------------------------------- the merge
\* Lines 97-105: fold the segments, appending a plain segment's text to a
\* preceding plain segment.
RECURSIVE MergeInto(_, _)
MergeInto(merged, segs) ==
    IF segs = <<>> THEN merged
    ELSE LET segment == Head(segs)
             n == Len(merged)
         IN IF n > 0 /\ ~merged[n].isLink /\ ~segment.isLink
            THEN MergeInto([merged EXCEPT ![n].text = @ \o segment.text], Tail(segs))
            ELSE MergeInto(Append(merged, segment), Tail(segs))

\* The segments as the scan pushed them.
NoMerge(segs) == segs

MergeSegments(segs) == MergeInto(<<>>, segs)

\* An empty list.
EarlyResultEmpty(def) == <<>>

\* Line 22: the result of the early return.
EarlyResult(def) == <<PlainSegment(def)>>

\* Line 107
FinalResult(def, merged) == IF Len(merged) > 0 THEN merged ELSE <<PlainSegment(def)>>

\* ------------------------------------------------------- the call as a whole
\* Lines 40-94 run to the end: the segments pushed once the loop has left,
\* from the segments pushed so far and the scan position.
RECURSIVE ScanFrom(_, _, _, _)
ScanFrom(def, others, segs, pIndex) ==
    IF ~(pIndex < Len(def)) THEN segs
    ELSE LET k == MatchedTermIndex(def, others, pIndex)
         IN IF k # 0
            THEN ScanFrom(def, others, Append(segs, LinkSegment(def, pIndex, others[k])),
                          AfterLink(pIndex, others[k]))
            ELSE LET nextMatchPos == NextMatchPos(def, others, pIndex)
                     text == Slice(def, pIndex, nextMatchPos)
                 IN ScanFrom(def, others,
                             IF text # <<>> THEN Append(segs, PlainSegment(text)) ELSE segs,
                             nextMatchPos)

\* The value a call returns, for names that are not empty.
parseDefinitionForLinks(def, terms, cur) ==
    IF def = <<>> \/ Len(terms) = 0
    THEN EarlyResult(def)
    ELSE FinalResult(def, MergeSegments(ScanFrom(def, OtherTerms(terms, cur), <<>>, 0)))

\* -------------------------------------------------------------------- inputs
SeqsUpTo(S, n) == UNION {[1..k -> S] : k \in 0..n}

Definitions == SeqsUpTo(Alphabet, MaxDefLen)

\* Term.name is a non-empty string.
Names == SeqsUpTo(Alphabet, MaxNameLen) \ {<<>>}

\* Ids are opaque and unique: the term at position i of the catalog has id i.
Catalog(names) == [i \in 1..Len(names) |-> [id |-> i, name |-> names[i]]]

Catalogs ==
    {Catalog(ns) : ns \in SeqsUpTo(Names, MaxTerms)}


\* Three concrete calls, <<definition, allTerms, currentTermId>>, next to the
\* bounded ones: "Cell Division is a process" with Cell and Cell Division,
\* "cellular biology" with cell, "Mitosis is important" with mitosis.
CellDivisionCall ==
    << <<"C","e","l","l"," ","D","i","v","i","s","i","o","n"," ","i","s"," ",
         "a"," ","p","r","o","c","e","s","s">>,
       Catalog(<< <<"C","e","l","l">>,
                  <<"C","e","l","l"," ","D","i","v","i","s","i","o","n">> >>),
       0 >>

CellularCall ==
    << <<"c","e","l","l","u","l","a","r"," ","b","i","o","l","o","g","y">>,
       Catalog(<< <<"c","e","l","l">> >>),
       0 >>

MitosisCall ==
    << <<"M","i","t","o","s","i","s"," ","i","s"," ","i","m","p","o","r","t","a","n","t">>,
       Catalog(<< <<"m","i","t","o","s","i","s">> >>),
       0 >>

ExampleCalls == {CellDivisionCall, CellularCall, MitosisCall}

\* ----------------------------------------------------------------- the state
VARIABLES
    definition,      \* argument
    allTerms,        \* argument
    currentTermId,   \* argument
    pc,              \* "start", "scan" or "done"
    otherTerms,      \* local
    segments,        \* local
    processedIndex,  \* local
    result,          \* the returned list, <<>> before the return
    iterations,      \* history: iterations of the while loop in this call
    calls,           \* history: calls made so far, this one included
    staleIndex,      \* history: processedIndex as the call before left it
    content,         \* parseCSV: argument, the text of the file
    data,            \* parseJSON: what JSON.parse(content) gives
    ipc,             \* the import's position
    lines,           \* parseCSV: local
    nameIndex,       \* parseCSV: local
    definitionIndex, \* parseCSV: local
    index,           \* i of the for loop, index of the forEach callback
    importTerms,     \* local: terms
    importErrors,    \* local: errors
    importResult     \* the ImportResult returned

linkerVars == <<definition, allTerms, currentTermId, pc, otherTerms, segments,
                processedIndex, result, iterations, calls, staleIndex>>

importVars == <<content, data, ipc, lines, nameIndex, definitionIndex, index,
                importTerms, importErrors, importResult>>

vars == <<linkerVars, importVars>>

args == <<definition, allTerms, currentTermId>>

\* The array of an earlier call, as if segments were kept outside the function.
StaleSegments == segments

\* Line 30: const segments = [], a new array in every call.
FreshSegments == <<>>

\* No import is under way.
NoResult == [success |-> FALSE, terms |-> <<>>, errors |-> <<>>]

ImportIdle ==
    /\ content = <<>>
    /\ data = <<>>
    /\ ipc = "idle"
    /\ lines = <<>>
    /\ nameIndex = -1
    /\ definitionIndex = -1
    /\ index = 0
    /\ importTerms = <<>>
    /\ importErrors = <<>>
    /\ importResult = NoResult

Init ==
    /\ \/ /\ definition \in Definitions
          /\ allTerms \in Catalogs
          /\ currentTermId \in 0..Len(allTerms)
       \/ \E call \in ExampleCalls :
             /\ definition = call[1]
             /\ allTerms = call[2]
             /\ currentTermId = call[3]
    /\ pc = "start"
    /\ otherTerms = <<>>
    /\ segments = <<>>
    /\ processedIndex = 0
    /\ result = <<>>
    /\ iterations = 0
    /\ calls = 1
    /\ staleIndex = 0
    /\ ImportIdle

\* Lines 21-23
EarlyReturn ==
    /\ pc = "start"
    /\ (definition = <<>> \/ Len(allTerms) = 0)
    /\ result' = EarlyResult(definition)
    /\ pc' = "done"
    /\ UNCHANGED <<args, otherTerms, segments, processedIndex, iterations, calls, staleIndex>>
    /\ UNCHANGED importVars

\* Lines 26-32
Prepare ==
    /\ pc = "start"
    /\ ~(definition = <<>> \/ Len(allTerms) = 0)
    /\ otherTerms' = OtherTerms(allTerms, currentTermId)
    /\ allTerms' = CallerListAfterSort(allTerms, currentTermId)
    /\ segments' = FreshSegments
    /\ processedIndex' = 0
    /\ pc' = "scan"
    /\ UNCHANGED <<definition, currentTermId, result, iterations, calls, staleIndex>>
    /\ UNCHANGED importVars

\* Lines 40-66: an iteration that finds a match at the current position.
ScanLink ==
    /\ pc = "scan"
    /\ processedIndex < Len(definition)
    /\ LET k == MatchedTermIndex(definition, otherTerms, processedIndex)
       IN /\ k # 0
          /\ segments' = Append(segments,
                                LinkSegment(definition, processedIndex, otherTerms[k]))
          /\ processedIndex' = AfterLink(processedIndex, otherTerms[k])
    /\ iterations' = iterations + 1
    /\ UNCHANGED <<args, pc, otherTerms, result, calls, staleIndex>>
    /\ UNCHANGED importVars

\* Lines 40-57, 67-93: an iteration that finds none.
ScanGap ==
    /\ pc = "scan"
    /\ processedIndex < Len(definition)
    /\ MatchedTermIndex(definition, otherTerms, processedIndex) = 0
    /\ LET nextMatchPos == NextMatchPos(definition, otherTerms, processedIndex)
           text == Slice(definition, processedIndex, nextMatchPos)
       IN /\ segments' = IF text # <<>> THEN Append(segments, PlainSegment(text))
                         ELSE segments
          /\ processedIndex' = nextMatchPos
    /\ iterations' = iterations + 1
    /\ UNCHANGED <<args, pc, otherTerms, result, calls, staleIndex>>
    /\ UNCHANGED importVars

\* Lines 96-107: the loop has ended.
MergeAndReturn ==
    /\ pc = "scan"
    /\ ~(processedIndex < Len(definition))
    /\ result' = FinalResult(definition, MergeSegments(segments))
    /\ pc' = "done"
    /\ UNCHANGED <<args, otherTerms, segments, processedIndex, iterations, calls, staleIndex>>
    /\ UNCHANGED importVars

Next == EarlyReturn \/ Prepare \/ ScanLink \/ ScanGap \/ MergeAndReturn

Spec == Init /\ [][Next]_vars

\* The calls with a definition written with "a" and "+" and a catalog of one
\* term at most.
FewDefinitions == SeqsUpTo({"a", "+"}, MaxDefLen)

FewCatalogs == {cat \in Catalogs : Len(cat) <= 1}

FewCalls == definition \in FewDefinitions /\ allTerms \in FewCatalogs

FewInit == Init /\ FewCalls

\* The call is synchronous: once entered it runs its steps until it returns.
FairSpec == FewInit /\ [][Next]_vars /\ WF_vars(Next)

\* The calls the caller makes one after the other.
MaxCalls == 2

\* The component that renders a definition calls the function again, with
\* other arguments. The function has no await: a call runs to its return
\* before the next one starts, so the interleavings of several invocations
\* are the orders in which they run. What the locals of the call before held
\* is still there when the next call starts.
Restart ==
    /\ pc = "done"
    /\ calls < MaxCalls
    /\ definition' \in FewDefinitions
    /\ allTerms' \in FewCatalogs
    /\ currentTermId' \in 0..Len(allTerms')
    /\ pc' = "start"
    /\ result' = <<>>
    /\ iterations' = 0
    /\ calls' = calls + 1
    /\ staleIndex' = processedIndex
    /\ UNCHANGED <<otherTerms, segments, processedIndex>>
    /\ UNCHANGED importVars

SeqNext == Next \/ Restart

SeqSpec == FewInit /\ [][SeqNext]_vars

\* ================================================================ the import
\* parseCSV and parseJSON of the file import, which produce the (name,
\* definition) pairs that become terms of the catalog.

\* ------------------------------------------------------------- string methods
\* Characters String.prototype.trim removes, of those the inputs are made of.
WhiteSpace == {" ", "\t", "\r", "\n"}

RECURSIVE TrimStart(_)
TrimStart(s) ==
    IF s # <<>> /\ Head(s) \in WhiteSpace THEN TrimStart(Tail(s)) ELSE s

RECURSIVE TrimEnd(_)
TrimEnd(s) ==
    IF s # <<>> /\ s[Len(s)] \in WhiteSpace THEN TrimEnd(SubSeq(s, 1, Len(s) - 1)) ELSE s

\* s.trim()
Trim(s) == TrimEnd(TrimStart(s))

\* s.split(sep) for a separator of one character.
RECURSIVE Split(_, _)
Split(s, sep) ==
    LET at == {k \in 1..Len(s) : s[k] = sep}
    IN IF at = {} THEN <<s>>
       ELSE <<SubSeq(s, 1, Min(at) - 1)>> \o Split(SubSeq(s, Min(at) + 1, Len(s)), sep)

LowerChar(c) ==
    IF \E k \in 1..26 : UpperLetters[k] = c
    THEN LowerLetters[CHOOSE k \in 1..26 : UpperLetters[k] = c]
    ELSE c

\* s.toLowerCase()
toLowerCase(s) == [k \in 1..Len(s) |-> LowerChar(s[k])]

Max(a, b) == IF a >= b THEN a ELSE b

\* ------------------------------------------------------------------ parseCSV
\* Lines 76-96, from character k of the line on.
RECURSIVE ParseCSVLineFrom(_, _, _, _, _)
ParseCSVLineFrom(line, k, fields, current, inQuotes) ==
    IF k > Len(line) THEN Append(fields, current)
    ELSE IF line[k] = "\""
         THEN ParseCSVLineFrom(line, k + 1, fields, current, ~inQuotes)
         ELSE IF line[k] = "," /\ ~inQuotes
              THEN ParseCSVLineFrom(line, k + 1, Append(fields, current), <<>>, inQuotes)
              ELSE ParseCSVLineFrom(line, k + 1, fields, Append(current, line[k]), inQuotes)

parseCSVLine(line) == ParseCSVLineFrom(line, 1, <<>>, <<>>, FALSE)

\* Line 17
NonBlankLines(text) == SelectSeq(Split(text, "\n"), LAMBDA line : Trim(line) # <<>>)

\* Line 23
Headers(headerLine) ==
    LET parts == Split(headerLine, ",")
    IN [k \in 1..Len(parts) |-> toLowerCase(Trim(parts[k]))]

\* headers.findIndex(h => h is one of accepted): 0-based, -1 when none is.
FindIndex(headers, accepted) ==
    LET hits == {k \in 1..Len(headers) : headers[k] \in accepted}
    IN IF hits = {} THEN -1 ELSE Min(hits) - 1

NameHeaders == {<<"n","a","m","e">>, <<"t","e","r","m">>}

DefinitionHeaders ==
    {<<"d","e","f","i","n","i","t","i","o","n">>, <<"d","e","f">>,
     <<"m","e","a","n","i","n","g">>}

Failure(message) == [success |-> FALSE, terms |-> <<>>, errors |-> <<message>>]

\* Lines 62-66 and 138-142
Outcome(terms, errors) == [success |-> Len(terms) > 0, terms |-> terms, errors |-> errors]

\* ------------------------------------------------------------ values of JSON
Undefined == [type |-> "undefined"]

Null == [type |-> "null"]

Str(s) == [type |-> "string", str |-> s]

Num(n) == [type |-> "number", num |-> n]

Obj(fields) == [type |-> "object", fields |-> fields]

Arr(items) == [type |-> "array", items |-> items]

\* JSON.parse threw a SyntaxError.
Thrown == [type |-> "throw"]

\* typeof v
TypeOf(v) == IF v.type \in {"null", "array"} THEN "object" ELSE v.type

\* Is v truthy?
Truthy(v) ==
    CASE v.type = "string" -> v.str # <<>>
      [] v.type = "number" -> v.num # 0
      [] v.type \in {"undefined", "null"} -> FALSE
      [] OTHER -> TRUE

\* a || b
Or(a, b) == IF Truthy(a) THEN a ELSE b

\* item.key: undefined for a property the value does not have.
Get(item, key) ==
    IF item.type = "object" /\ key \in DOMAIN item.fields
    THEN item.fields[key]
    ELSE Undefined

\* --------------------------------------------------------- inputs of import
MaxLineLen == 3
MaxLines == 2
MaxItems == 2

CSVChars == {"a", " ", ",", "\""}

CSVLines == SeqsUpTo(CSVChars, MaxLineLen)

\* "name,def", "Def, Term" and "name".
CSVHeaders ==
    {<<"n","a","m","e",",","d","e","f">>,
     <<"D","e","f",","," ","T","e","r","m">>,
     <<"n","a","m","e">>}

RECURSIVE JoinLines(_)
JoinLines(ls) ==
    IF Len(ls) = 0 THEN <<>>
    ELSE IF Len(ls) = 1 THEN ls[1]
         ELSE ls[1] \o <<"\n">> \o JoinLines(Tail(ls))

CSVContents ==
    {<<>>, <<" ", "\n">>} \cup
    {JoinLines(<<h>> \o ls) : h \in CSVHeaders, ls \in SeqsUpTo(CSVLines, MaxLines)}

\* Values of the name and definition properties: absent, "", " ", " a", 1.
PropertyValues ==
    {Undefined, Str(<<>>), Str(<<" ">>), Str(<<" ", "a">>), Num(1)}

JSONItems ==
    {Null, Num(1), Str(<<"a">>), Arr(<<>>)} \cup
    {Obj([name |-> n, term |-> t, definition |-> d, def |-> e, meaning |-> m]) :
        n \in PropertyValues, t \in {Undefined, Str(<<"b">>)},
        d \in PropertyValues, e \in {Undefined, Str(<<"d">>)},
        m \in {Undefined, Str(<<" ">>)}}

JSONData ==
    {Thrown, Null, Num(1), Obj([name |-> Str(<<"a">>), definition |-> Str(<<"d">>)])} \cup
    {Arr(items) : items \in SeqsUpTo(JSONItems, MaxItems)}

\* No call of the linker is under way.
LinkerIdle ==
    /\ definition = <<>>
    /\ allTerms = <<>>
    /\ currentTermId = 0
    /\ pc = "idle"
    /\ otherTerms = <<>>
    /\ segments = <<>>
    /\ processedIndex = 0
    /\ result = <<>>
    /\ iterations = 0
    /\ calls = 0
    /\ staleIndex = 0

\* A call of parseCSV on a file's text, or a call of parseJSON on a text from
\* which JSON.parse gives data.
ImportInit ==
    /\ LinkerIdle
    /\ \/ ipc = "csv" /\ content \in CSVContents /\ data = <<>>
       \/ ipc = "json" /\ content = <<>> /\ data \in JSONData
    /\ lines = <<>>
    /\ nameIndex = -1
    /\ definitionIndex = -1
    /\ index = 0
    /\ importTerms = <<>>
    /\ importErrors = <<>>
    /\ importResult = NoResult

\* Lines 17-21
CSVEmpty ==
    /\ ipc = "csv"
    /\ Len(NonBlankLines(content)) = 0
    /\ lines' = NonBlankLines(content)
    /\ importResult' = Failure("File is empty")
    /\ ipc' = "done"
    /\ UNCHANGED <<content, data, nameIndex, definitionIndex, index,
                   importTerms, importErrors>>
    /\ UNCHANGED linkerVars

\* Lines 17-38: the header line lacks a column.
CSVBadHeader ==
    /\ ipc = "csv"
    /\ Len(NonBlankLines(content)) # 0
    /\ lines' = NonBlankLines(content)
    /\ nameIndex' = FindIndex(Headers(lines'[1]), NameHeaders)
    /\ definitionIndex' = FindIndex(Headers(lines'[1]), DefinitionHeaders)
    /\ (nameIndex' = -1 \/ definitionIndex' = -1)
    /\ importResult' = Failure("CSV must have name and definition columns")
    /\ ipc' = "done"
    /\ UNCHANGED <<content, data, index, importTerms, importErrors>>
    /\ UNCHANGED linkerVars

\* Lines 13-40: the header line has both columns, the loop starts at i = 1.
CSVHeader ==
    /\ ipc = "csv"
    /\ Len(NonBlankLines(content)) # 0
    /\ lines' = NonBlankLines(content)
    /\ nameIndex' = FindIndex(Headers(lines'[1]), NameHeaders)
    /\ definitionIndex' = FindIndex(Headers(lines'[1]), DefinitionHeaders)
    /\ ~(nameIndex' = -1 \/ definitionIndex' = -1)
    /\ index' = 1
    /\ importTerms' = <<>>
    /\ importErrors' = <<>>
    /\ ipc' = "csvLoop"
    /\ UNCHANGED <<content, data, importResult>>
    /\ UNCHANGED linkerVars

\* Lines 40-60: one iteration of the for loop.
CSVLine ==
    /\ ipc = "csvLoop"
    /\ index < Len(lines)
    /\ LET line == lines[index + 1]
           values == parseCSVLine(line)
       IN IF Trim(line) = <<>>
          THEN UNCHANGED <<importTerms, importErrors>>
          ELSE IF Len(values) <= Max(nameIndex, definitionIndex)
          THEN /\ importErrors' = Append(importErrors, <<"Line", index + 1, "Invalid format">>)
               /\ UNCHANGED importTerms
          ELSE LET name == Trim(values[nameIndex + 1])
                   definitionText == Trim(values[definitionIndex + 1])
               IN IF name = <<>> \/ definitionText = <<>>
                  THEN /\ importErrors' =
                             Append(importErrors,
                                    <<"Line", index + 1, "Missing name or definition">>)
                       /\ UNCHANGED importTerms
                  ELSE /\ importTerms' =
                             Append(importTerms,
                                    [name |-> name, definition |-> definitionText])
                       /\ UNCHANGED importErrors
    /\ index' = index + 1
    /\ UNCHANGED <<content, data, ipc, lines, nameIndex, definitionIndex, importResult>>
    /\ UNCHANGED linkerVars

\* Lines 62-66
CSVReturn ==
    /\ ipc = "csvLoop"
    /\ ~(index < Len(lines))
    /\ importResult' = Outcome(importTerms, importErrors)
    /\ ipc' = "done"
    /\ UNCHANGED <<content, data, lines, nameIndex, definitionIndex, index,
                   importTerms, importErrors>>
    /\ UNCHANGED linkerVars

\* Lines 100, 143-149: JSON.parse throws.
JSONThrow ==
    /\ ipc = "json"
    /\ data = Thrown
    /\ importResult' = Failure("Failed to parse JSON")
    /\ ipc' = "done"
    /\ UNCHANGED <<content, data, lines, nameIndex, definitionIndex, index,
                   importTerms, importErrors>>
    /\ UNCHANGED linkerVars

\* Lines 102-108
JSONNotArray ==
    /\ ipc = "json"
    /\ data # Thrown
    /\ data.type # "array"
    /\ importResult' = Failure("JSON must be an array of terms")
    /\ ipc' = "done"
    /\ UNCHANGED <<content, data, lines, nameIndex, definitionIndex, index,
                   importTerms, importErrors>>
    /\ UNCHANGED linkerVars

\* Lines 110-113
JSONArray ==
    /\ ipc = "json"
    /\ data.type = "array"
    /\ importTerms' = <<>>
    /\ importErrors' = <<>>
    /\ index' = 0
    /\ ipc' = "jsonLoop"
    /\ UNCHANGED <<content, data, lines, nameIndex, definitionIndex, importResult>>
    /\ UNCHANGED linkerVars

\* Lines 113-136: the callback of forEach on one item.
JSONItem ==
    /\ ipc = "jsonLoop"
    /\ index < Len(data.items)
    /\ LET item == data.items[index + 1]
           name == Or(Get(item, "name"), Get(item, "term"))
           definitionValue ==
               Or(Or(Get(item, "definition"), Get(item, "def")), Get(item, "meaning"))
       IN IF TypeOf(item) # "object" \/ item = Null
          THEN /\ importErrors' =
                     Append(importErrors, <<"Item", index + 1, "Must be an object">>)
               /\ UNCHANGED importTerms
          ELSE IF ~Truthy(name) \/ TypeOf(name) # "string"
          THEN /\ importErrors' =
                     Append(importErrors,
                            <<"Item", index + 1, "Missing or invalid name field">>)
               /\ UNCHANGED importTerms
          ELSE IF ~Truthy(definitionValue) \/ TypeOf(definitionValue) # "string"
          THEN /\ importErrors' =
                     Append(importErrors,
                            <<"Item", index + 1, "Missing or invalid definition field">>)
               /\ UNCHANGED importTerms
          ELSE /\ importTerms' =
                     Append(importTerms,
                            [name |-> Trim(name.str),
                             definition |-> Trim(definitionValue.str)])
               /\ UNCHANGED importErrors
    /\ index' = index + 1
    /\ UNCHANGED <<content, data, ipc, lines, nameIndex, definitionIndex, importResult>>
    /\ UNCHANGED linkerVars

\* Lines 138-142
JSONReturn ==
    /\ ipc = "jsonLoop"
    /\ ~(index < Len(data.items))
    /\ importResult' = Outcome(importTerms, importErrors)
    /\ ipc' = "done"
    /\ UNCHANGED <<content, data, lines, nameIndex, definitionIndex, index,
                   importTerms, importErrors>>
    /\ UNCHANGED linkerVars

ImportNext ==
    \/ CSVEmpty \/ CSVBadHeader \/ CSVHeader \/ CSVLine \/ CSVReturn
    \/ JSONThrow \/ JSONNotArray \/ JSONArray \/ JSONItem \/ JSONReturn

ImportSpec == ImportInit /\ [][ImportNext]_vars

\* ===================================================================== claims
\* Vocabulary of the claims, written from their wording and independent of the
\* matcher above.

\* The same character, or the two cases of one letter.
SameIgnoringCase(c, d) ==
    c = d \/ \E i \in 1..26 : {c, d} = {UpperLetters[i], LowerLetters[i]}

EqualIgnoringCase(s, t) ==
    Len(s) = Len(t) /\ \A i \in 1..Len(s) : SameIgnoringCase(s[i], t[i])

\* name occurs in D at 0-based position p, ignoring case.
OccursAt(D, name, p) ==
    /\ p >= 0
    /\ p + Len(name) <= Len(D)
    /\ EqualIgnoringCase(SubSeq(D, p + 1, p + Len(name)), name)

\* A word boundary of D at position p: a word character on exactly one side.
BoundaryAt(D, p) == IsWordAt(D, p - 1) # IsWordAt(D, p)

\* A whole-word match of name in D at p: an occurrence between two word
\* boundaries of the definition.
WholeWordMatchAt(D, name, p) ==
    OccursAt(D, name, p) /\ BoundaryAt(D, p) /\ BoundaryAt(D, p + Len(name))

HasWholeWordMatch(D, name) == \E p \in 0..Len(D) : WholeWordMatchAt(D, name, p)

RECURSIVE ConcatTexts(_)
ConcatTexts(segs) ==
    IF segs = <<>> THEN <<>> ELSE Head(segs).text \o ConcatTexts(Tail(segs))

\* The position in the definition at which segment k of segs starts.
SegStart(segs, k) == Len(ConcatTexts(SubSeq(segs, 1, k - 1)))

SegEnd(segs, k) == SegStart(segs, k) + Len(segs[k].text)

Links(segs) == {k \in 1..Len(segs) : segs[k].isLink}

Candidates == {allTerms[i] : i \in {j \in 1..Len(allTerms) : allTerms[j].id # currentTermId}}

CurrentTerms == {allTerms[i] : i \in {j \in 1..Len(allTerms) : allTerms[j].id = currentTermId}}

\* No two terms of the catalog have the same name ignoring case.
UniqueNames ==
    \A i, j \in 1..Len(allTerms) :
        i # j => ~EqualIgnoringCase(allTerms[i].name, allTerms[j].name)

Returned == pc = "done"

\* C1 -- Round-trip: the texts of the returned segments, concatenated in
\* order, are exactly the definition.
C1_RoundTrip == Returned => ConcatTexts(result) = definition

\* A returned list plain, link, plain whose link's text is spelled in another
\* case than the linked term's name.
C1_Witness ==
    /\ Returned
    /\ Len(result) = 3
    /\ ~result[1].isLink /\ result[2].isLink /\ ~result[3].isLink
    /\ \E t \in Candidates : t.id = result[2].termId /\ t.name # result[2].text

\* C2 -- No self-link by id: no returned segment is a link whose termId is
\* currentTermId.
C2_NoSelfLinkById ==
    Returned => \A k \in Links(result) : result[k].termId # currentTermId

\* The current term is in a catalog of unique names, its name has a whole-word
\* match in the definition, and the call returned a link (to another term).
C2_Witness ==
    /\ Returned
    /\ UniqueNames
    /\ Links(result) # {}
    /\ \E t \in CurrentTerms : HasWholeWordMatch(definition, t.name)

\* C3 -- No self-link by name, as claimed: when the current term is in the
\* catalog and its name appears in the definition, no link's text is that name
\* ignoring case, whatever other terms the catalog holds.
C3_NoSelfLinkByName ==
    Returned =>
        \A t \in CurrentTerms :
            (\E p \in 0..Len(definition) : OccursAt(definition, t.name, p)) =>
                \A k \in Links(result) : ~EqualIgnoringCase(result[k].text, t.name)

\* C3 amended -- the same, for a catalog in which no other term has the
\* current term's name ignoring case.
C3_NoSelfLinkByNameUnique ==
    Returned =>
        \A t \in CurrentTerms :
            /\ \E p \in 0..Len(definition) : OccursAt(definition, t.name, p)
            /\ \A c \in Candidates : ~EqualIgnoringCase(c.name, t.name)
            => \A k \in Links(result) : ~EqualIgnoringCase(result[k].text, t.name)

\* The current term's name has a whole-word match in the definition, no other
\* term shares the name, and another term of the catalog is linked.
C3_Witness ==
    /\ Returned
    /\ Links(result) # {}
    /\ \E t \in CurrentTerms :
          /\ HasWholeWordMatch(definition, t.name)
          /\ \A c \in Candidates : ~EqualIgnoringCase(c.name, t.name)

\* The term of the catalog a link's termId names.
TermOfId(id) == CHOOSE t \in Range(allTerms) : t.id = id

C5_WordBoundary ==
    Returned =>
        /\ \A k \in Links(result) :
              /\ ~IsWordAt(definition, SegStart(result, k) - 1)
              /\ ~IsWordAt(definition, SegEnd(result, k))
        /\ <<definition, allTerms, currentTermId>> = CellularCall => Links(result) = {}

\* C6 -- Case-insensitive matching with case preservation, as claimed, for a
\* catalog of names unique ignoring case: at every position p the scan reached
\* (the start of a segment it pushed), a candidate with a whole-word match at
\* p, where no longer candidate has one, is linked by the segment pushed
\* there, with the definition's own characters as text.
C6_CaseInsensitiveLink ==
    (Returned /\ UniqueNames) =>
        \A k \in 1..Len(segments) : \A c \in Candidates :
            LET p == SegStart(segments, k)
            IN (/\ WholeWordMatchAt(definition, c.name, p)
                /\ \A d \in Candidates :
                      Len(d.name) > Len(c.name) => ~WholeWordMatchAt(definition, d.name, p))
               => segments[k] = [text |-> SubSeq(definition, p + 1, p + Len(c.name)),
                                 isLink |-> TRUE, termId |-> c.id]

\* C7 -- Empty catalog: with no terms the result is the one plain segment,
\* without termId, whose text is the definition.
C7_EmptyCatalog ==
    (Returned /\ Len(allTerms) = 0) =>
        result = <<[text |-> definition, isLink |-> FALSE]>>

\* A call with no terms and a non-empty definition has returned.
C7_Witness == Returned /\ Len(allTerms) = 0 /\ definition # <<>>

\* C8 -- Empty definition: the result is the one plain segment with the empty
\* text, for any catalog and currentTermId.
C8_EmptyDefinition ==
    (Returned /\ definition = <<>>) =>
        result = <<[text |-> <<>>, isLink |-> FALSE]>>

\* A call with the empty definition and a catalog holding candidates has returned.
C8_Witness == Returned /\ definition = <<>> /\ Candidates # {}

C10_Merged ==
    Returned => \A k \in 1..(Len(result) - 1) : result[k].isLink \/ result[k + 1].isLink

\* The scan pushed two plain segments in a row, and the call returned.
C10_Witness ==
    /\ Returned
    /\ \E k \in 1..(Len(segments) - 1) : ~segments[k].isLink /\ ~segments[k + 1].isLink

\* C11 -- Segment well-formedness: a returned segment has a termId exactly
\* when it is a link, and a termId is the id of a term of the catalog other
\* than currentTermId.
C11_WellFormed ==
    Returned =>
        \A k \in 1..Len(result) :
            /\ ("termId" \in DOMAIN result[k]) <=> result[k].isLink
            /\ result[k].isLink =>
                  /\ result[k].termId # currentTermId
                  /\ \E t \in Range(allTerms) : t.id = result[k].termId

\* A returned list with a link and a plain segment, from a catalog that holds
\* the current term.
C11_Witness ==
    /\ Returned
    /\ CurrentTerms # {}
    /\ \E k \in 1..Len(result) : result[k].isLink
    /\ \E k \in 1..Len(result) : ~result[k].isLink

\* The permutations of a list.
PermutationsOf(list) ==
    {[i \in 1..Len(list) |-> list[f[i]]] :
        f \in {g \in [1..Len(list) -> 1..Len(list)] :
                 \A i, j \in 1..Len(list) : g[i] = g[j] => i = j}}

\* C12 -- Input-order independence: with names pairwise distinct ignoring
\* case, a call on any permutation of the terms list returns what this call
\* returned.
C12_OrderIndependent ==
    (Returned /\ UniqueNames) =>
        \A perm \in PermutationsOf(allTerms) :
            parseDefinitionForLinks(definition, perm, currentTermId) = result

\* Two candidates, the shorter one first in the list and a prefix of the
\* longer one, both with a whole-word match where the returned link starts.
C12_Witness ==
    /\ Returned
    /\ UniqueNames
    /\ Len(allTerms) >= 2
    /\ \E k \in Links(result) : \E i, j \in 1..Len(allTerms) :
          /\ i < j
          /\ allTerms[i].id # currentTermId
          /\ allTerms[j].id = result[k].termId
          /\ Len(allTerms[i].name) < Len(allTerms[j].name)
          /\ OccursAt(allTerms[j].name, allTerms[i].name, 0)
          /\ WholeWordMatchAt(definition, allTerms[i].name, SegStart(result, k))

\* C13 -- Termination: with non-empty names every call returns, the returned
\* segments cover the whole definition, and the loop runs at most
\* definition.length iterations.
C13_Terminates ==
    /\ <>Returned
    /\ [](iterations <= Len(definition))
    /\ [](Returned => Len(ConcatTexts(result)) = Len(definition))

\* A call that returned after as many iterations as the definition has
\* characters, more than one.
C13_Witness == Returned /\ iterations = Len(definition) /\ iterations >= 2

C16_LinkSpan ==
    Returned =>
        \A k \in Links(result) :
            /\ Len(result[k].text) = Len(TermOfId(result[k].termId).name)
            /\ EqualIgnoringCase(result[k].text, TermOfId(result[k].termId).name)
            /\ result[k].text =
                  SubSeq(definition, SegStart(result, k) + 1, SegEnd(result, k))
            /\ k < Len(result) =>
                  result[k + 1].text =
                      SubSeq(definition, SegEnd(result, k) + 1, SegEnd(result, k + 1))

\* A link spelled in another case than the term's name, with a segment before
\* it and a segment after it.
C16_Witness ==
    /\ Returned
    /\ \E k \in Links(result) :
          /\ 1 < k /\ k < Len(result)
          /\ result[k].text # TermOfId(result[k].termId).name

\* C17 -- No missed match, as claimed: no plain segment of the result holds,
\* entirely inside it, an occurrence ignoring case of a candidate's name that
\* has no word character right before it and none right after it; and a plain
\* segment ends at the end of the definition or where a candidate's name
\* occurs.
C17_NoMissedMatch ==
    Returned =>
        \A k \in 1..Len(result) :
            ~result[k].isLink =>
                /\ \A c \in Candidates :
                      \A p \in SegStart(result, k)..(SegEnd(result, k) - Len(c.name)) :
                          ~(/\ OccursAt(definition, c.name, p)
                            /\ ~IsWordAt(definition, p - 1)
                            /\ ~IsWordAt(definition, p + Len(c.name)))
                /\ \/ SegEnd(result, k) = Len(definition)
                   \/ \E c \in Candidates : OccursAt(definition, c.name, SegEnd(result, k))

\* C18 -- Left-to-right priority, as claimed: when the scan reaches a position
\* p (a segment it pushed starts there) at which a candidate A has a
\* whole-word match, and a candidate B has a whole-word match at q with
\* p < q < p + length(A), the segment pushed at p is a link that covers A's
\* occurrence and no link starts at q.
C18_LeftToRight ==
    Returned =>
        \A k \in 1..Len(segments) : \A A, B \in Candidates :
            LET p == SegStart(segments, k)
            IN \A q \in (p + 1)..(p + Len(A.name) - 1) :
                   (/\ WholeWordMatchAt(definition, A.name, p)
                    /\ WholeWordMatchAt(definition, B.name, q))
                   => /\ segments[k].isLink
                      /\ SegEnd(segments, k) >= p + Len(A.name)
                      /\ \A j \in Links(segments) : SegStart(segments, j) # q

\* C19 -- Candidate set: a call with a non-empty definition and a catalog that
\* holds the current term and nothing else returns one plain segment with the
\* definition as text, which is what the call returns for the empty catalog.
C19_OnlyCurrentTerm ==
    (Returned /\ definition # <<>> /\ Len(allTerms) >= 1 /\ Candidates = {}) =>
        /\ result = <<[text |-> definition, isLink |-> FALSE]>>
        /\ result = parseDefinitionForLinks(definition, <<>>, currentTermId)

\* The catalog holds the current term only, its name has a whole-word match
\* in the definition, and the scan ran before the call returned.
C19_Witness ==
    /\ Returned
    /\ Len(allTerms) = 1
    /\ Candidates = {}
    /\ iterations >= 1
    /\ HasWholeWordMatch(definition, allTerms[1].name)

\* C20 -- Scan-loop invariant: whenever the loop tests its condition,
\* 0 <= processedIndex <= definition.length and the segments pushed so far
\* concatenate to the first processedIndex characters of the definition, so an
\* iteration starts with processedIndex < definition.length; and an iteration
\* strictly increases processedIndex, never beyond definition.length.
C20_LoopInvariant ==
    /\ [](pc = "scan" =>
             /\ 0 <= processedIndex
             /\ processedIndex <= Len(definition)
             /\ ConcatTexts(segments) = SubSeq(definition, 1, processedIndex))
    /\ [][(pc = "scan" /\ pc' = "scan") =>
             /\ processedIndex' > processedIndex
             /\ processedIndex' <= Len(definition)]_vars

\* The loop is about to start its third iteration at least, after a link and
\* a plain segment, before the end of the definition.
C20_Witness ==
    /\ pc = "scan"
    /\ iterations >= 2
    /\ processedIndex < Len(definition)
    /\ Links(segments) # {}
    /\ \E k \in 1..Len(segments) : ~segments[k].isLink

\* C21 -- Non-empty result: a call never returns an empty list; for a
\* non-empty definition every returned segment has a non-empty text; and when
\* the loop has ended the merged list is not empty, so that the fallback of
\* the return statement is not taken.
C21_NonEmptyResult ==
    /\ Returned =>
          /\ Len(result) >= 1
          /\ definition # <<>> => \A k \in 1..Len(result) : result[k].text # <<>>
    /\ (pc = "scan" /\ ~(processedIndex < Len(definition))) =>
          Len(MergeSegments(segments)) > 0

\* A call that scanned a non-empty definition in two iterations at least and
\* returned a link and a plain segment.
C21_Witness ==
    /\ Returned
    /\ definition # <<>>
    /\ iterations >= 2
    /\ Links(result) # {}
    /\ \E k \in 1..Len(result) : ~result[k].isLink

\* C22 -- Names starting with a non-word character: no link is to a term
\* whose name begins with a non-word character; and where the gap search
\* stopped at a whole-word match of such a candidate, the segment pushed there
\* is plain and the result has it merged with the plain segment before it.
C22_NonWordStart ==
    Returned =>
        /\ \A k \in Links(result) :
              IsWordChar(TermOfId(result[k].termId).name[1])
        /\ \A k \in 2..Len(segments) :
              (/\ ~segments[k - 1].isLink
               /\ \E c \in Candidates :
                     /\ ~IsWordChar(c.name[1])
                     /\ WholeWordMatchAt(definition, c.name, SegStart(segments, k)))
              => /\ ~segments[k].isLink
                 /\ \A j \in 1..Len(result) :
                       SegStart(result, j) # SegStart(segments, k)

\* The only candidate begins with a non-word character, the gap search
\* stopped at a whole-word match of it, and the call returned.
C22_Witness ==
    /\ Returned
    /\ Len(allTerms) = 1
    /\ \A c \in Candidates : ~IsWordChar(c.name[1])
    /\ \E k \in 2..Len(segments) : \E c \in Candidates :
          WholeWordMatchAt(definition, c.name, SegStart(segments, k))

\* C23 -- Names ending with a non-word character: a link to a term whose name
\* ends with a non-word character is immediately followed in the definition
\* by a word character, so it is not followed by a space, by punctuation or by
\* the end of the definition.
C23_NonWordEnd ==
    Returned =>
        \A k \in Links(result) :
            LET name == TermOfId(result[k].termId).name
            IN ~IsWordChar(name[Len(name)]) =>
                   IsWordAt(definition, SegEnd(result, k))

\* A link to a term whose name ends with a non-word character, with a word
\* character after it, where the catalog's other term ends with a word
\* character.
C23_Witness ==
    /\ Returned
    /\ Len(allTerms) = 2
    /\ \E c \in Candidates : IsWordChar(c.name[Len(c.name)])
    /\ \E k \in Links(result) :
          LET name == TermOfId(result[k].termId).name
          IN /\ ~IsWordChar(name[Len(name)])
             /\ IsWordAt(definition, SegEnd(result, k))

\* Every name of the catalog begins and ends with a word character.
WordEdgedNames ==
    \A i \in 1..Len(allTerms) :
        /\ IsWordChar(allTerms[i].name[1])
        /\ IsWordChar(allTerms[i].name[Len(allTerms[i].name)])

\* C24 -- Strict alternation: for a catalog of names that begin and end with
\* a word character, of two consecutive returned segments one is a link and
\* the other is plain, and a plain segment between two links holds a non-word
\* character.
C24_Alternation ==
    (Returned /\ WordEdgedNames) =>
        /\ \A k \in 1..(Len(result) - 1) : result[k].isLink # result[k + 1].isLink
        /\ \A k \in 2..(Len(result) - 1) :
              (result[k - 1].isLink /\ result[k + 1].isLink) =>
                  \E i \in 1..Len(result[k].text) : ~IsWordChar(result[k].text[i])

\* Two links with a plain segment between them, from a catalog of two names
\* that begin and end with a word character.
C24_Witness ==
    /\ Returned
    /\ WordEdgedNames
    /\ Len(allTerms) = 2
    /\ Len(result) = 3
    /\ result[1].isLink /\ ~result[2].isLink /\ result[3].isLink

\* C25 -- Equal-length tie order: when two candidates have names of the same
\* length that both are the text of a link ignoring case, the link does not
\* carry the id of the one that is later in the terms list: of the candidates
\* tied at a link, the earliest in the list is linked.
C25_TieOrder ==
    Returned =>
        \A k \in Links(result) : \A i, j \in 1..Len(allTerms) :
            (/\ i < j
             /\ allTerms[i].id # currentTermId
             /\ allTerms[j].id # currentTermId
             /\ Len(allTerms[i].name) = Len(allTerms[j].name)
             /\ EqualIgnoringCase(result[k].text, allTerms[i].name)
             /\ EqualIgnoringCase(result[k].text, allTerms[j].name))
            => result[k].termId # allTerms[j].id

\* Two candidates whose names differ in case only, and a link to the first.
C25_Witness ==
    /\ Returned
    /\ Len(allTerms) = 2
    /\ allTerms[1].name # allTerms[2].name
    /\ EqualIgnoringCase(allTerms[1].name, allTerms[2].name)
    /\ \E k \in Links(result) :
          /\ result[k].termId = allTerms[1].id
          /\ result[k].text = allTerms[2].name

Imported == ipc = "done"

\* C26 -- Non-empty names from import, as claimed: every pair in the terms
\* list that parseCSV or parseJSON returns has a name and a definition that
\* are trimmed and not empty.
C26_ImportNonEmpty ==
    Imported =>
        \A k \in 1..Len(importResult.terms) :
            LET t == importResult.terms[k]
            IN /\ t.name # <<>> /\ Trim(t.name) = t.name
               /\ t.definition # <<>> /\ Trim(t.definition) = t.definition

====
